---- MODULE Spec2Model ----
(***************************************************************************)
(* rollup-plugin-tagged-template-postcss: the transform hook of the plugin *)
(* (src/index.js, src/plugin.js), the region locator and transform runner  *)
(* (targets.js) and the standard output transform (transforms.js).         *)
(*                                                                         *)
(* Text is a sequence of one-character strings.  Offsets are those of the  *)
(* JavaScript code (0-based, end exclusive); the character at offset k of  *)
(* a text s is s[k + 1].                                                   *)
(***************************************************************************)
EXTENDS Integers, Sequences, FiniteSets, TLC

VARIABLES
  pc,               \* position of the invocation of transform(code, id)
  options,          \* the plugin options given to taggedTemplatePostCss
  code,             \* transform's code argument
  id,               \* transform's id argument
  rc,               \* what postcss-load-config finds in the environment
  objIdx,           \* makeTagMap: index of optionsObj in pluginOptions
  resolved,         \* makeTagMap: postcssConfig of each optionsObj so far
  discovered,       \* indices of the optionsObj postcssrc() was called for
  tagMap,           \* makeTagMap: the Map under construction / returned
  ast,              \* TaggedTemplateExpression nodes in walk order
  transformTargets, \* the targets gathered by the walk
  tgtIdx,           \* index of target in the transform loop
  calls,            \* the postcss(...).process(...) calls made so far
  transformRanges,  \* the Ranges object: ranges pushed so far
  result,           \* what transform returned
  error,            \* what transform threw
  escIn,            \* argument of a call of standardOutputTransform
  escOut,           \* its return value
  escPc,            \* position of that call
  dependencies,     \* makeTransformRanges: the Set of dependencies, in insertion order
  handed,           \* plugin.js: the value the last stage of the pipeline receives
  spStr,            \* the text a Ranges object is applied to
  spPushes,         \* the ranges to push, in the order they are pushed
  spRanges,         \* the Ranges object of that splice
  spOut,            \* what applyRanges returned
  spPc,             \* position of that splice
  hook,             \* two invocations: the module whose transform hook is called
  invs              \* two invocations: the local bindings of each

vars == << pc, options, code, id, rc, objIdx, resolved, discovered, tagMap, ast,
           transformTargets, tgtIdx, calls, transformRanges, result, error,
           escIn, escOut, escPc, dependencies, handed,
           spStr, spPushes, spRanges, spOut, spPc, hook, invs >>

pipelineVars == << pc, options, code, id, rc, objIdx, resolved, discovered, tagMap,
                   ast, transformTargets, tgtIdx, calls, transformRanges, result,
                   error >>

escVars == << escIn, escOut, escPc >>

runnerVars == << dependencies, handed >>

spliceVars == << spStr, spPushes, spRanges, spOut, spPc >>

pairVars == << hook, invs >>

----------------------------------------------------------------------------
(* Characters.  The backtick cannot be written in a string of a module, so *)
(* it has a name of its own.                                               *)

BS == "\\"
BT == "BACKTICK"
DL == "$"
OB == "{"
CB == "}"

----------------------------------------------------------------------------
(* String.prototype.replace(/pat/g, rep) for a literal pattern: matches    *)
(* are found left to right and do not overlap; the replacement strings of  *)
(* transforms.js hold no substitution pattern.                             *)

MatchAt(s, i, pat) ==
  /\ i + Len(pat) - 1 <= Len(s)
  /\ SubSeq(s, i, i + Len(pat) - 1) = pat

RECURSIVE ReplaceFrom(_, _, _, _)
ReplaceFrom(s, i, pat, rep) ==
  IF i > Len(s) THEN << >>
  ELSE IF MatchAt(s, i, pat)
       THEN rep \o ReplaceFrom(s, i + Len(pat), pat, rep)
       ELSE << s[i] >> \o ReplaceFrom(s, i + 1, pat, rep)

StringReplaceAll(s, pat, rep) == ReplaceFrom(s, 1, pat, rep)

\* A transform that leaves backslashes as they are.
escapeBackslash_none(contents) == contents

escapeBackslash(contents) == StringReplaceAll(contents, << BS >>, << BS, BS >>)

escapeBacktick(contents) == StringReplaceAll(contents, << BT >>, << BS, BT >>)

escapePlaceholderOpening(contents) ==
  StringReplaceAll(contents, << DL, OB >>, << BS, DL, OB >>)

\* A pipeline that escapes the backslashes last: it escapes the backslashes
\* the other two passes added.
standardOutputTransform_backslashLast(contents) ==
  escapeBackslash(escapePlaceholderOpening(escapeBacktick(contents)))

\* A pipeline without the placeholder pass.
standardOutputTransform_noPlaceholder(contents) ==
  escapeBacktick(escapeBackslash(contents))

\* pipe(escapeBackslash, escapeBacktick, escapePlaceholderOpening)
standardOutputTransform(contents) ==
  escapePlaceholderOpening(escapeBacktick(escapeBackslash(contents)))

----------------------------------------------------------------------------
(* Objects.  A JavaScript object is a function from its own keys to their  *)
(* values; a key the object does not have is not in its DOMAIN.            *)

EmptyObject == [k \in {} |-> {}]

\* lodash pick(object, paths)
pick_all(object, paths) == object

pick(object, paths) == [k \in (DOMAIN object) \cap paths |-> object[k]]

\* const { key = ..., ...rest } = object: the rest
RestWithout(object, key) == [k \in (DOMAIN object) \ {key} |-> object[k]]

\* Object.assign(target, source), as a new object
ObjectAssign(target, source) ==
  [k \in (DOMAIN target) \cup (DOMAIN source) |->
     IF k \in DOMAIN source THEN source[k] ELSE target[k]]

\* Map.prototype.set(key, value), as a new map
MapSet(map, key, value) ==
  [k \in (DOMAIN map) \cup {key} |-> IF k = key THEN value ELSE map[k]]

EmptyMap == [k \in {} |-> {}]

----------------------------------------------------------------------------
(* resolvePostcssConfig                                                    *)

acceptedOptions == {"parser", "stringifier", "syntax"}

\* The branch taken when a config is given in the plugin options.
resolveGiven(postcssConfig) ==
  [plugins |-> IF "plugins" \in DOMAIN postcssConfig
               THEN postcssConfig.plugins ELSE << >>,
   options |-> pick(RestWithout(postcssConfig, "plugins"), acceptedOptions)]

\* The branch taken on the result of postcssrc().
resolveLoaded(loadResult) ==
  [plugins |-> loadResult.plugins,
   options |-> pick(loadResult.options, acceptedOptions)]

\* if (postcssConfig): a config object is truthy, a missing one is undefined
HasPostcss_never(optionsObj) == FALSE

HasPostcss(optionsObj) == "postcss" \in DOMAIN optionsObj

----------------------------------------------------------------------------
(* makeTagMap                                                              *)

\* A default that also replaces an empty list of transforms.
outputTransformsOf_emptyIsDefault(optionsObj) ==
  IF "outputTransforms" \in DOMAIN optionsObj /\ optionsObj.outputTransforms # << >>
  THEN optionsObj.outputTransforms
  ELSE << "standardOutputTransform" >>

\* optionsObj.outputTransforms || [standardOutputTransform]
outputTransformsOf(optionsObj) ==
  IF "outputTransforms" \in DOMAIN optionsObj
  THEN optionsObj.outputTransforms
  ELSE << "standardOutputTransform" >>

processTagConfigOf(optionsObj, postcssConfig) ==
  [postcssConfig |-> postcssConfig,
   outputTransforms |-> outputTransformsOf(optionsObj)]

\* for (const tag of optionsObj.tags): the map after the loop, or the tag
\* the loop threw on.
RECURSIVE SetTags_lastWins(_, _, _)
SetTags_lastWins(map, tags, processTagConfig) ==
  IF tags = << >> THEN [threw |-> FALSE, map |-> map]
  ELSE SetTags_lastWins(MapSet(map, Head(tags), processTagConfig), Tail(tags),
                        processTagConfig)

RECURSIVE SetTags(_, _, _)
SetTags(map, tags, processTagConfig) ==
  IF tags = << >> THEN [threw |-> FALSE, map |-> map]
  ELSE IF Head(tags) \in DOMAIN map
       THEN [threw |-> TRUE, map |-> map, tag |-> Head(tags)]
       ELSE SetTags(MapSet(map, Head(tags), processTagConfig), Tail(tags),
                    processTagConfig)

NoError == [type |-> "none"]

DuplicateTagError(tag) ==
  [type |-> "Error",
   message |-> "PostCSS config already defined for tagged template literal",
   tag |-> tag]

ConfigMissingError(tags, cause) ==
  [type |-> "TraceError",
   message |-> "PostCSS config missing for tag set",
   tags |-> tags,
   cause |-> cause]

\* What postcssrc() rejects with when it finds no config.
NoConfigFound == [type |-> "Error", message |-> "No PostCSS Config found"]

\* if (!Array.isArray(pluginOptions)) pluginOptions = [pluginOptions]:
\* options.items is the array, or the one object given in place of an array.
pluginOptionsOf(opts) == opts.items

----------------------------------------------------------------------------
(* this.parse(code) and acorn-walk's simple walk, for the part of the      *)
(* language the model's sources are written in: identifiers, member tags,  *)
(* template literals with escapes and placeholders, nested to any depth.   *)
(* The walk calls the visitor of a node after it has walked the node's     *)
(* children, so the nodes come in the order their templates close.         *)

Punctuation == {BT, BS, DL, OB, CB, " ", "=", ";", ":", "."}

IsIdentChar(c) == c \notin Punctuation

RECURSIVE Join(_)
Join(chars) == IF chars = << >> THEN "" ELSE Head(chars) \o Join(Tail(chars))

\* The index of the first character of the identifier that ends at index j.
RECURSIVE IdentStart(_, _)
IdentStart(text, j) ==
  IF j >= 1 /\ IsIdentChar(text[j]) THEN IdentStart(text, j - 1) ELSE j + 1

\* The tag of the template literal whose opening backtick is at index i.
TagAt(text, i) ==
  LET k == IdentStart(text, i - 1) IN
  IF k = i THEN [type |-> "none"]
  ELSE IF k > 1 /\ text[k - 1] = "."
       THEN [type |-> "MemberExpression"]
       ELSE [type |-> "Identifier", name |-> Join(SubSeq(text, k, i - 1))]

RECURSIVE Lex(_, _, _, _)
Lex(text, i, stack, nodes) ==
  IF i > Len(text) THEN nodes
  ELSE
    LET c == text[i]
        top == stack[Len(stack)]
        pop == SubSeq(stack, 1, Len(stack) - 1)
    IN
    IF stack # << >> /\ top.kind = "template"
    THEN IF c = BS THEN Lex(text, i + 2, stack, nodes)
         ELSE IF MatchAt(text, i, << DL, OB >>)
              THEN Lex(text, i + 2, Append(stack, [kind |-> "expression"]), nodes)
         ELSE IF c = BT
              THEN Lex(text, i + 1, pop,
                       IF top.tag.type = "none" THEN nodes
                       ELSE Append(nodes,
                                   [type |-> "TaggedTemplateExpression",
                                    tag |-> top.tag,
                                    quasi |-> [start |-> top.start, end |-> i]]))
         ELSE Lex(text, i + 1, stack, nodes)
    ELSE IF c = BT
         THEN Lex(text, i + 1,
                  Append(stack, [kind |-> "template", tag |-> TagAt(text, i),
                                 start |-> i - 1]),
                  nodes)
         ELSE IF c = CB /\ stack # << >>
              THEN Lex(text, i + 1, pop, nodes)
         ELSE Lex(text, i + 1, stack, nodes)

\* The TaggedTemplateExpression nodes of the tree, in the order simpleWalk
\* calls the visitor on them.
parse(text) == Lex(text, 1, << >>, << >>)

----------------------------------------------------------------------------
(* findTransformTargets                                                    *)

Min(a, b) == IF a <= b THEN a ELSE b
Max(a, b) == IF a >= b THEN a ELSE b
Clamp(n, len) == Max(0, Min(n, len))

\* String.prototype.substring(indexStart, indexEnd)
substring(text, indexStart, indexEnd) ==
  LET a == Clamp(indexStart, Len(text))
      b == Clamp(indexEnd, Len(text))
  IN SubSeq(text, Min(a, b) + 1, Max(a, b))

\* tagMap.has(node.tag.name): the name of a tag that is no identifier is
\* undefined, which is no key of the map.
tagMapHas(map, node) ==
  /\ "name" \in DOMAIN node.tag
  /\ node.tag.name \in DOMAIN map

literalStart_withBacktick(node) == node.quasi.start

literalStart(node) == node.quasi.start + 1

literalEnd_withBacktick(node) == node.quasi.end

literalEnd(node) == node.quasi.end - 1

\* The visitor's push.
targetOf(text, map, node) ==
  [start |-> literalStart(node),
   end |-> literalEnd(node),
   literalContents |-> substring(text, literalStart(node), literalEnd(node)),
   processTagConfig |-> map[node.tag.name]]

\* A visitor that pushes a target for every tagged template, with the
\* default config for a tag the map does not have.
RECURSIVE findTransformTargets_all(_, _, _)
findTransformTargets_all(text, map, nodes) ==
  IF nodes = << >> THEN << >>
  ELSE << [start |-> literalStart(Head(nodes)),
           end |-> literalEnd(Head(nodes)),
           literalContents |-> substring(text, literalStart(Head(nodes)),
                                         literalEnd(Head(nodes))),
           processTagConfig |->
             IF tagMapHas(map, Head(nodes)) THEN map[Head(nodes).tag.name]
             ELSE [postcssConfig |-> [plugins |-> << >>, options |-> EmptyObject],
                   outputTransforms |-> << "standardOutputTransform" >>]] >>
       \o findTransformTargets_all(text, map, Tail(nodes))

RECURSIVE findTransformTargets(_, _, _)
findTransformTargets(text, map, nodes) ==
  IF nodes = << >> THEN << >>
  ELSE (IF tagMapHas(map, Head(nodes))
        THEN << targetOf(text, map, Head(nodes)) >> ELSE << >>)
       \o findTransformTargets(text, map, Tail(nodes))

----------------------------------------------------------------------------
(* The processor, postcss(plugins).process(contents, options), with the    *)
(* plugins the model's configurations name: "docs" adds text that holds a  *)
(* backtick (as Tailwind's comments do), "throws" makes the call reject.   *)
(* With no plugin the css of the result is the contents given.             *)

pluginCss(plugin, css) ==
  IF plugin = "docs" THEN css \o << "d", BT >> ELSE css

RECURSIVE processCss(_, _)
processCss(contents, plugins) ==
  IF plugins = << >> THEN contents
  ELSE processCss(pluginCss(Head(plugins), contents), Tail(plugins))

\* A processor whose plugins never throw.
processRejects_never(plugins) == FALSE

processRejects(plugins) == \E i \in DOMAIN plugins : plugins[i] = "throws"

ProcessorError == [type |-> "CssSyntaxError", message |-> "plugin threw"]

\* The messages a plugin leaves in postcssResult.messages for the css it is
\* given: "docs" reports a file, a directory (as Tailwind does, once with each
\* message type) and a warning.
pluginMessages(plugin, css) ==
  IF plugin = "docs"
  THEN << [type |-> "dependency",
           file |-> IF css = << >> THEN "empty.css" ELSE "theme.css"],
          [type |-> "dir-dependency", dir |-> "src"],
          [type |-> "context-dependency", file |-> "src"],
          [type |-> "warning", text |-> "unused", file |-> "warned.css"] >>
  ELSE << >>

\* postcssResult.messages
RECURSIVE processMessages(_, _)
processMessages(contents, plugins) ==
  IF plugins = << >> THEN << >>
  ELSE pluginMessages(Head(plugins), contents)
       \o processMessages(pluginCss(Head(plugins), contents), Tail(plugins))

\* The functions a configuration lists in outputTransforms.
applyTransform(fn, contents) ==
  IF fn = "standardOutputTransform" THEN standardOutputTransform(contents)
  ELSE IF fn = "exclaim" THEN contents \o << "!" >>
  ELSE contents

\* A pipe that applies none of the functions.
pipeNow_none(value, fns) == value

\* A pipe that stops after the first function.
pipeNow_firstOnly(value, fns) ==
  IF fns = << >> THEN value ELSE applyTransform(Head(fns), value)

\* pipe.now(value, ...fns)
RECURSIVE pipeNow(_, _)
pipeNow(value, fns) ==
  IF fns = << >> THEN value
  ELSE pipeNow(applyTransform(Head(fns), value), Tail(fns))

\* Object.assign({ from: id, to: id }, postcssConfig.options)
postcssOptionsOf(moduleId, target) ==
  ObjectAssign([from |-> moduleId, to |-> moduleId],
               target.processTagConfig.postcssConfig.options)

\* Set.prototype.add on a Set kept in insertion order, with duplicates.
addDependency_always(deps, path) == Append(deps, path)

\* Set.prototype.add on a Set kept in insertion order
addDependency(deps, path) ==
  IF \E i \in DOMAIN deps : deps[i] = path THEN deps ELSE Append(deps, path)

\* for (const message of postcssResult.messages)
RECURSIVE addDependencies(_, _)
addDependencies(deps, messages) ==
  IF messages = << >> THEN deps
  ELSE LET message == Head(messages) IN
       addDependencies(
         IF message.type = "dependency" \/ message.type = "context-dependency"
         THEN addDependency(deps, message.file)
         ELSE IF message.type = "dir-dependency"
              THEN addDependency(deps, message.dir)
              ELSE deps,
         Tail(messages))

----------------------------------------------------------------------------
(* ranges-push and ranges-apply, as the transform uses them.  A range is   *)
(* [from, to, add]; an add of no characters stands for a range pushed      *)
(* without one.                                                            *)

\* A push that leaves out a range that changes nothing.
RangesPush_dropsEmpty(ranges, from, to, addVal) ==
  IF from = to /\ addVal = << >> THEN ranges
  ELSE Append(ranges, [from |-> from, to |-> to, add |-> addVal])

\* Ranges.push(from, to, addVal): a range that starts where the last one
\* pushed ends extends it.
RangesPush(ranges, from, to, addVal) ==
  IF ranges # << >> /\ from = ranges[Len(ranges)].to
  THEN [ranges EXCEPT ![Len(ranges)] =
          [from |-> @.from, to |-> to, add |-> @.add \o addVal]]
  ELSE Append(ranges, [from |-> from, to |-> to, add |-> addVal])

RangeBefore(a, b) == a.from < b.from \/ (a.from = b.from /\ a.to <= b.to)

RECURSIVE InsertSorted(_, _)
InsertSorted(sorted, r) ==
  IF sorted = << >> THEN << r >>
  ELSE IF RangeBefore(r, Head(sorted)) THEN << r >> \o sorted
       ELSE << Head(sorted) >> \o InsertSorted(Tail(sorted), r)

\* A sort that leaves the ranges in the order they were pushed in.
RangesSort_none(ranges) == ranges

RECURSIVE RangesSort(_)
RangesSort(ranges) ==
  IF ranges = << >> THEN << >>
  ELSE InsertSorted(RangesSort(Tail(ranges)), Head(ranges))

\* ranges-merge on sorted ranges: a range that starts within or at the end
\* of the one before it is joined to it; the joined range keeps the other
\* range's add only when that one reaches as far to the right.
RECURSIVE MergeSorted(_)
MergeSorted(sorted) ==
  IF Len(sorted) < 2 THEN sorted
  ELSE
    LET a == sorted[1]
        b == sorted[2]
        rest == SubSeq(sorted, 3, Len(sorted))
    IN
    IF b.from <= a.to
    THEN MergeSorted(<< [from |-> a.from,
                         to |-> Max(a.to, b.to),
                         add |-> IF a.from >= b.from \/ a.to <= b.to
                                 THEN a.add \o b.add ELSE a.add] >> \o rest)
    ELSE << a >> \o MergeSorted(<< b >> \o rest)

IsFutile(r) == r.from = r.to /\ r.add = << >>

\* Ranges.current()
RangesCurrent(ranges) ==
  MergeSorted(RangesSort(SelectSeq(ranges, LAMBDA r : ~IsFutile(r))))

\* rApply(str, ranges) on merged ranges
RECURSIVE ApplyFrom(_, _, _)
ApplyFrom(str, pos, ranges) ==
  IF ranges = << >> THEN SubSeq(str, pos + 1, Len(str))
  ELSE SubSeq(str, pos + 1, Head(ranges).from) \o Head(ranges).add
       \o ApplyFrom(str, Head(ranges).to, Tail(ranges))

applyRanges(str, ranges) == ApplyFrom(str, 0, ranges)

----------------------------------------------------------------------------
(* createFilter(options.include, options.exclude).  A pattern is the set   *)
(* of the module ids it matches; a list that is not given is empty.  An    *)
(* array of configuration objects has no include and no exclude property.  *)

patternsOf(opts, key) ==
  IF ~opts.isArray /\ key \in DOMAIN opts.items[1] THEN opts.items[1][key]
  ELSE << >>

\* A filter that includes every module.
filter_all(opts, moduleId) == TRUE

filter(opts, moduleId) ==
  LET include == patternsOf(opts, "include")
      exclude == patternsOf(opts, "exclude")
  IN IF \E i \in DOMAIN exclude : moduleId \in exclude[i] THEN FALSE
     ELSE IF \E i \in DOMAIN include : moduleId \in include[i] THEN TRUE
     ELSE Len(include) = 0

----------------------------------------------------------------------------
(* The inputs of the model.                                                *)

MaxTags == 2    \* tags listed by one configuration object
MaxObjs == 2    \* configuration objects of an array of plugin options
MaxStmts == 2   \* statements of a source text
MaxLen == 4     \* characters of an argument of standardOutputTransform

SeqsUpTo(S, n) == UNION {[1..k -> S] : k \in 0..n}

TagNames == {"css", "html"}

ModuleIds == {"a.js", "b.js"}

\* postcss configs given in the plugin options
UserConfig ==
  [plugins |-> << "docs" >>, parser |-> "userParser", from |-> "userFrom",
   to |-> "userTo", map |-> "userMap"]

PlainConfig == [syntax |-> "userSyntax"]

ThrowingConfig == [plugins |-> << "throws" >>]

\* what postcssrc() resolves to when it finds a config file
LoadedConfig ==
  [plugins |-> << "docs" >>,
   options |-> [parser |-> "rcParser", from |-> "rcFrom", to |-> "rcTo",
                map |-> "rcMap", cwd |-> "/"],
   file |-> "postcss.config.js"]

Environments == {[found |-> FALSE], [found |-> TRUE, result |-> LoadedConfig]}

\* A configuration object but for its tags.
Profiles ==
  { EmptyObject,
    [postcss |-> UserConfig, outputTransforms |-> << >>],
    [postcss |-> PlainConfig],
    [postcss |-> PlainConfig, outputTransformers |-> << "exclaim" >>] }

WithTags(profile, tags) ==
  [k \in (DOMAIN profile) \cup {"tags"} |->
     IF k = "tags" THEN tags ELSE profile[k]]

OptionsObjs ==
  {WithTags(p, tags) : p \in Profiles, tags \in SeqsUpTo(TagNames, MaxTags)}

\* The objects of an array of plugin options: a config to discover or one given.
ArrayObjs == {o \in OptionsObjs : "postcss" \in DOMAIN o => o.postcss = UserConfig}

AllOptions ==
  {[isArray |-> FALSE, items |-> << o >>] : o \in OptionsObjs}
  \cup {[isArray |-> TRUE, items |-> items] : items \in SeqsUpTo(ArrayObjs, MaxObjs)}

\* The options the richer source texts are transformed under.
FewOptions ==
  { [isArray |-> FALSE,
     items |-> << [include |-> << {"a.js"} >>, tags |-> << "css" >>,
                   postcss |-> [plugins |-> << >>]] >>],
    [isArray |-> FALSE,
     items |-> << [exclude |-> << {"b.js"} >>, tags |-> << "css", "html" >>,
                   postcss |-> PlainConfig] >>],
    [isArray |-> TRUE,
     items |-> << [tags |-> << "css" >>, postcss |-> UserConfig,
                   outputTransforms |-> << "exclaim", "standardOutputTransform" >>],
                  [tags |-> << "html" >>] >>],
    [isArray |-> TRUE,
     items |-> << [tags |-> << "html" >>, postcss |-> ThrowingConfig],
                  [tags |-> << "css" >>, postcss |-> [plugins |-> << >>]] >>],
    [isArray |-> TRUE,
     items |-> << [include |-> << {"b.js"} >>, tags |-> << "css" >>,
                   postcss |-> PlainConfig],
                  [include |-> << {"b.js"} >>, tags |-> << "html" >>,
                   postcss |-> [plugins |-> << >>]] >>] }

\* tag, backtick, body, backtick
Template(tag, body) == tag \o << BT >> \o body \o << BT >>

Placeholder(expression) == << DL, OB >> \o expression \o << CB >>

Css == << "c", "s", "s" >>
Html == << "h", "t", "m", "l" >>
Sql == << "s", "q", "l" >>
MemberCss == << "o", ".", "c", "s", "s" >>

PlainTemplates ==
  {Template(Css, body) :
     body \in { << >>, << "a" >>, << "a", BS, BT >>,
                << "a" >> \o Placeholder(<< "x" >>) \o << ";" >> }}
  \cup {Template(Html, << "b" >>), Template(Sql, << "a" >>),
        Template(MemberCss, << "a" >>)}

InnerTemplates ==
  {Template(Css, << "a" >>), Template(Html, << >>), Template(Sql, << "a" >>)}

NestedTemplates ==
  {Template(Css, << "a" >> \o Placeholder(inner) \o << "b" >>) :
     inner \in InnerTemplates}
  \cup {Template(Html, << "a" >> \o Placeholder(Template(Css, << "a" >>)) \o << "b" >>)}

Statements ==
  {<< "s", "=" >> \o t \o << ";" >> : t \in PlainTemplates \cup NestedTemplates}

RECURSIVE Concat(_)
Concat(seqs) == IF seqs = << >> THEN << >> ELSE Head(seqs) \o Concat(Tail(seqs))

\* const s = css, backtick, color:${x};, backtick
ExampleSource ==
  << "c", "o", "n", "s", "t", " ", "s", " ", "=", " " >>
  \o Template(Css, << "c", "o", "l", "o", "r", ":" >> \o Placeholder(<< "x" >>)
                   \o << ";" >>)

Sources ==
  {Concat(stmts) : stmts \in SeqsUpTo(Statements, MaxStmts)} \cup {ExampleSource}

FewSources == {ExampleSource}

EscChars == {BS, BT, DL, OB, "a"}

EscInputs == SeqsUpTo(EscChars, MaxLen)

NoResult == [kind |-> "none"]

NoValue == [type |-> "undefined"]

\* No makeTransformRanges of targets.js has run.
RunnerIdle == dependencies = << >> /\ handed = NoValue

\* No Ranges object is applied on its own.
SpliceIdle ==
  /\ spStr = << >>
  /\ spPushes = << >>
  /\ spRanges = << >>
  /\ spOut = << >>
  /\ spPc = "idle"

\* No pair of invocations is running.
PairIdle == hook = "none" /\ invs = << >>

----------------------------------------------------------------------------
(* One invocation of the transform hook.                                   *)

Init ==
  /\ pc = "start"
  /\ \/ options \in FewOptions /\ code \in Sources /\ id \in ModuleIds
     \/ options \in AllOptions /\ code \in FewSources /\ id = "a.js"
  /\ rc \in Environments
  /\ objIdx = 1
  /\ resolved = << >>
  /\ discovered = << >>
  /\ tagMap = EmptyMap
  /\ ast = << >>
  /\ transformTargets = << >>
  /\ tgtIdx = 1
  /\ calls = << >>
  /\ transformRanges = << >>
  /\ result = NoResult
  /\ error = NoError
  /\ escIn = << >>
  /\ escOut = << >>
  /\ escPc = "idle"
  /\ RunnerIdle
  /\ SpliceIdle
  /\ PairIdle

pluginOptions == pluginOptionsOf(options)

optionsObj == pluginOptions[objIdx]

target == transformTargets[tgtIdx]

\* if (!filter(id)) return;
FilterRejects ==
  /\ pc = "start"
  /\ ~filter(options, id)
  /\ pc' = "skipped"
  /\ result' = [kind |-> "undefined"]
  /\ UNCHANGED << options, code, id, rc, objIdx, resolved, discovered, tagMap, ast,
                  transformTargets, tgtIdx, calls, transformRanges, error, escVars, runnerVars, spliceVars, pairVars >>

\* makeTagMap(options) is called: const tagMap = new Map()
FilterAccepts ==
  /\ pc = "start"
  /\ filter(options, id)
  /\ pc' = "resolve"
  /\ objIdx' = 1
  /\ tagMap' = EmptyMap
  /\ UNCHANGED << options, code, id, rc, resolved, discovered, ast,
                  transformTargets, tgtIdx, calls, transformRanges, result, error,
                  escVars, runnerVars, spliceVars, pairVars >>

\* resolvePostcssConfig(optionsObj.postcss) with a config given
ResolveGiven ==
  /\ pc = "resolve"
  /\ objIdx <= Len(pluginOptions)
  /\ HasPostcss(optionsObj)
  /\ resolved' = Append(resolved, resolveGiven(optionsObj.postcss))
  /\ pc' = "expand"
  /\ UNCHANGED << options, code, id, rc, objIdx, discovered, tagMap, ast,
                  transformTargets, tgtIdx, calls, transformRanges, result, error,
                  escVars, runnerVars, spliceVars, pairVars >>

\* resolvePostcssConfig(undefined): await postcssrc()
CallPostcssrc ==
  /\ pc = "resolve"
  /\ objIdx <= Len(pluginOptions)
  /\ ~HasPostcss(optionsObj)
  /\ discovered' = Append(discovered, objIdx)
  /\ pc' = "discovering"
  /\ UNCHANGED << options, code, id, rc, objIdx, resolved, tagMap, ast,
                  transformTargets, tgtIdx, calls, transformRanges, result, error,
                  escVars, runnerVars, spliceVars, pairVars >>

PostcssrcResolves ==
  /\ pc = "discovering"
  /\ rc.found
  /\ resolved' = Append(resolved, resolveLoaded(rc.result))
  /\ pc' = "expand"
  /\ UNCHANGED << options, code, id, rc, objIdx, discovered, tagMap, ast,
                  transformTargets, tgtIdx, calls, transformRanges, result, error,
                  escVars, runnerVars, spliceVars, pairVars >>

\* A catch that swallows the rejection and goes on with an empty config.
PostcssrcRejects_swallowed ==
  /\ pc = "discovering"
  /\ ~rc.found
  /\ resolved' = Append(resolved, [plugins |-> << >>, options |-> EmptyObject])
  /\ pc' = "expand"
  /\ UNCHANGED << options, code, id, rc, objIdx, discovered, tagMap, ast,
                  transformTargets, tgtIdx, calls, transformRanges, result, error,
                  escVars, runnerVars, spliceVars, pairVars >>

\* postcssrc() rejects: makeTagMap throws the TraceError, transform rejects
PostcssrcRejects ==
  /\ pc = "discovering"
  /\ ~rc.found
  /\ error' = ConfigMissingError(optionsObj.tags, NoConfigFound)
  /\ pc' = "failed"
  /\ UNCHANGED << options, code, id, rc, objIdx, resolved, discovered, tagMap, ast,
                  transformTargets, tgtIdx, calls, transformRanges, result,
                  escVars, runnerVars, spliceVars, pairVars >>

\* the loop over optionsObj.tags
ExpandTags ==
  /\ pc = "expand"
  /\ LET r == SetTags(tagMap, optionsObj.tags,
                      processTagConfigOf(optionsObj, resolved[Len(resolved)]))
     IN /\ tagMap' = r.map
        /\ IF r.threw
           THEN /\ error' = DuplicateTagError(r.tag)
                /\ pc' = "failed"
                /\ UNCHANGED objIdx
           ELSE /\ objIdx' = objIdx + 1
                /\ pc' = "resolve"
                /\ UNCHANGED error
  /\ UNCHANGED << options, code, id, rc, resolved, discovered, ast,
                  transformTargets, tgtIdx, calls, transformRanges, result,
                  escVars, runnerVars, spliceVars, pairVars >>

\* return tagMap
ReturnTagMap ==
  /\ pc = "resolve"
  /\ objIdx > Len(pluginOptions)
  /\ pc' = "parse"
  /\ UNCHANGED << options, code, id, rc, objIdx, resolved, discovered, tagMap, ast,
                  transformTargets, tgtIdx, calls, transformRanges, result, error,
                  escVars, runnerVars, spliceVars, pairVars >>

\* const ast = this.parse(code)
Parse ==
  /\ pc = "parse"
  /\ ast' = parse(code)
  /\ pc' = "walk"
  /\ UNCHANGED << options, code, id, rc, objIdx, resolved, discovered, tagMap,
                  transformTargets, tgtIdx, calls, transformRanges, result, error,
                  escVars, runnerVars, spliceVars, pairVars >>

\* simpleWalk(ast, { TaggedTemplateExpression ... }, baseWalker, transformTargets)
Walk ==
  /\ pc = "walk"
  /\ transformTargets' = findTransformTargets(code, tagMap, ast)
  /\ tgtIdx' = 1
  /\ transformRanges' = << >>
  /\ pc' = "transform"
  /\ UNCHANGED << options, code, id, rc, objIdx, resolved, discovered, tagMap, ast,
                  calls, result, error, escVars, runnerVars, spliceVars, pairVars >>

\* A loop that starts the call for the next target without awaiting the
\* call that is in flight.
CallProcessor_eager ==
  /\ pc \in {"transform", "processing"}
  /\ Len(calls) < Len(transformTargets)
  /\ calls' = Append(calls,
                     [contents |-> transformTargets[Len(calls) + 1].literalContents,
                      plugins |-> transformTargets[Len(calls) + 1]
                                    .processTagConfig.postcssConfig.plugins,
                      options |-> postcssOptionsOf(id, transformTargets[Len(calls) + 1])])
  /\ pc' = "processing"
  /\ UNCHANGED << options, code, id, rc, objIdx, resolved, discovered, tagMap, ast,
                  transformTargets, tgtIdx, transformRanges, result, error,
                  escVars, runnerVars, spliceVars, pairVars >>

\* postcss(plugins).process(target.literalContents, postcssOptions) is called
CallProcessor ==
  /\ pc = "transform"
  /\ tgtIdx <= Len(transformTargets)
  /\ calls' = Append(calls,
                     [contents |-> target.literalContents,
                      plugins |-> target.processTagConfig.postcssConfig.plugins,
                      options |-> postcssOptionsOf(id, target)])
  /\ pc' = "processing"
  /\ UNCHANGED << options, code, id, rc, objIdx, resolved, discovered, tagMap, ast,
                  transformTargets, tgtIdx, transformRanges, result, error,
                  escVars, runnerVars, spliceVars, pairVars >>

\* the call resolves: transformRanges.push(start, end, pipe.now(css, ...))
ProcessorResolves ==
  /\ pc = "processing"
  /\ ~processRejects(calls[Len(calls)].plugins)
  /\ LET css == processCss(calls[Len(calls)].contents, calls[Len(calls)].plugins)
     IN transformRanges' =
          RangesPush(transformRanges, target.start, target.end,
                     pipeNow(css, target.processTagConfig.outputTransforms))
  /\ tgtIdx' = tgtIdx + 1
  /\ pc' = "transform"
  /\ UNCHANGED << options, code, id, rc, objIdx, resolved, discovered, tagMap, ast,
                  transformTargets, calls, result, error, escVars, runnerVars, spliceVars, pairVars >>

\* the call rejects: transform rejects
ProcessorRejects ==
  /\ pc = "processing"
  /\ processRejects(calls[Len(calls)].plugins)
  /\ error' = ProcessorError
  /\ pc' = "failed"
  /\ UNCHANGED << options, code, id, rc, objIdx, resolved, discovered, tagMap, ast,
                  transformTargets, tgtIdx, calls, transformRanges, result,
                  escVars, runnerVars, spliceVars, pairVars >>

\* return { code: applyRanges(code, transformRanges.current()), map: null }
ApplyRanges ==
  /\ pc = "transform"
  /\ tgtIdx > Len(transformTargets)
  /\ result' = [kind |-> "object",
                code |-> applyRanges(code, RangesCurrent(transformRanges)),
                map |-> "null"]
  /\ pc' = "done"
  /\ UNCHANGED << options, code, id, rc, objIdx, resolved, discovered, tagMap, ast,
                  transformTargets, tgtIdx, calls, transformRanges, error,
                  escVars, runnerVars, spliceVars, pairVars >>

Next ==
  \/ FilterRejects
  \/ FilterAccepts
  \/ ResolveGiven
  \/ CallPostcssrc
  \/ PostcssrcResolves
  \/ PostcssrcRejects
  \/ ExpandTags
  \/ ReturnTagMap
  \/ Parse
  \/ Walk
  \/ CallProcessor
  \/ ProcessorResolves
  \/ ProcessorRejects
  \/ ApplyRanges

Spec == Init /\ [][Next]_vars

----------------------------------------------------------------------------
(* One call of standardOutputTransform, as the tests of transforms.js make *)
(* it.                                                                     *)

InitEscape ==
  /\ escPc = "call"
  /\ escIn \in EscInputs
  /\ escOut = << >>
  /\ pc = "idle"
  /\ options = [isArray |-> TRUE, items |-> << >>]
  /\ code = << >>
  /\ id = "a.js"
  /\ rc = [found |-> FALSE]
  /\ objIdx = 1
  /\ resolved = << >>
  /\ discovered = << >>
  /\ tagMap = EmptyMap
  /\ ast = << >>
  /\ transformTargets = << >>
  /\ tgtIdx = 1
  /\ calls = << >>
  /\ transformRanges = << >>
  /\ result = NoResult
  /\ error = NoError
  /\ RunnerIdle
  /\ SpliceIdle
  /\ PairIdle

CallStandardOutputTransform ==
  /\ escPc = "call"
  /\ escOut' = standardOutputTransform(escIn)
  /\ escPc' = "return"
  /\ UNCHANGED << escIn, pipelineVars, runnerVars, spliceVars, pairVars >>

NextEscape == CallStandardOutputTransform

SpecEscape == InitEscape /\ [][NextEscape]_vars

----------------------------------------------------------------------------
(* The transform hook of plugin.js: the same steps made with the functions *)
(* of targets.js and joined by railAsync, which hands the value each stage *)
(* returns to the next one.  makeTagMap, this.parse and findTransformTargets *)
(* are the steps of index.js.                                              *)

\* makeTransformRanges: the call resolves, the range is pushed and the
\* messages of the result are gone through
RunnerResolves ==
  /\ pc = "processing"
  /\ ~processRejects(calls[Len(calls)].plugins)
  /\ LET css == processCss(calls[Len(calls)].contents, calls[Len(calls)].plugins)
         messages == processMessages(calls[Len(calls)].contents,
                                     calls[Len(calls)].plugins)
     IN /\ transformRanges' =
             RangesPush(transformRanges, target.start, target.end,
                        pipeNow(css, target.processTagConfig.outputTransforms))
        /\ dependencies' = addDependencies(dependencies, messages)
  /\ tgtIdx' = tgtIdx + 1
  /\ pc' = "transform"
  /\ UNCHANGED << options, code, id, rc, objIdx, resolved, discovered, tagMap, ast,
                  transformTargets, calls, result, error, handed, escVars,
                  spliceVars, pairVars >>

\* return { transformRanges, dependencies: Array.from(dependencies) }
ReturnTransformRanges ==
  /\ pc = "transform"
  /\ tgtIdx > Len(transformTargets)
  /\ handed' = [type |-> "Object",
                transformRanges |-> [type |-> "Ranges", ranges |-> transformRanges],
                dependencies |-> dependencies]
  /\ pc' = "laststage"
  /\ UNCHANGED << options, code, id, rc, objIdx, resolved, discovered, tagMap, ast,
                  transformTargets, tgtIdx, calls, transformRanges, result, error,
                  dependencies, escVars, spliceVars, pairVars >>

\* value.current is a function: only a Ranges object has the method.
HasCurrent(value) == value.type = "Ranges"

NotAFunctionError ==
  [type |-> "TypeError", message |-> "transformRanges.current is not a function"]

\* (transformRanges) => applyRanges(code, transformRanges.current()), and
\* return { code: await transformCode(code), map: null }
LastStage ==
  /\ pc = "laststage"
  /\ IF HasCurrent(handed)
     THEN /\ result' = [kind |-> "object",
                        code |-> applyRanges(code, RangesCurrent(handed.ranges)),
                        map |-> "null"]
          /\ pc' = "done"
          /\ UNCHANGED error
     ELSE /\ error' = NotAFunctionError
          /\ pc' = "failed"
          /\ UNCHANGED result
  /\ UNCHANGED << options, code, id, rc, objIdx, resolved, discovered, tagMap, ast,
                  transformTargets, tgtIdx, calls, transformRanges, runnerVars,
                  escVars, spliceVars, pairVars >>

NextPlugin ==
  \/ FilterRejects
  \/ FilterAccepts
  \/ ResolveGiven
  \/ CallPostcssrc
  \/ PostcssrcResolves
  \/ PostcssrcRejects
  \/ ExpandTags
  \/ ReturnTagMap
  \/ Parse
  \/ Walk
  \/ CallProcessor
  \/ RunnerResolves
  \/ ProcessorRejects
  \/ ReturnTransformRanges
  \/ LastStage

SpecPlugin == Init /\ [][NextPlugin]_vars

----------------------------------------------------------------------------
(* A Ranges object on its own: ranges are pushed in some order, then       *)
(* applyRanges(str, ranges.current()) is called.                           *)

MaxRanges == 2  \* ranges pushed to one Ranges object

SpliceStr == << "a", "b", "c" >>

SpliceAdds == {<< >>, << "X" >>, << "Y" >>}

SpliceRanges ==
  {[from |-> f, to |-> t, add |-> a] :
     f \in 0..Len(SpliceStr), t \in 0..Len(SpliceStr), a \in SpliceAdds}

RECURSIVE PushAll(_, _)
PushAll(ranges, pushes) ==
  IF pushes = << >> THEN ranges
  ELSE PushAll(RangesPush(ranges, Head(pushes).from, Head(pushes).to,
                          Head(pushes).add),
               Tail(pushes))

InitSplice ==
  /\ spPc = "push"
  /\ spStr = SpliceStr
  /\ spPushes \in SeqsUpTo({r \in SpliceRanges : r.from <= r.to}, MaxRanges)
  /\ spRanges = << >>
  /\ spOut = << >>
  /\ pc = "idle"
  /\ options = [isArray |-> TRUE, items |-> << >>]
  /\ code = << >>
  /\ id = "a.js"
  /\ rc = [found |-> FALSE]
  /\ objIdx = 1
  /\ resolved = << >>
  /\ discovered = << >>
  /\ tagMap = EmptyMap
  /\ ast = << >>
  /\ transformTargets = << >>
  /\ tgtIdx = 1
  /\ calls = << >>
  /\ transformRanges = << >>
  /\ result = NoResult
  /\ error = NoError
  /\ escIn = << >>
  /\ escOut = << >>
  /\ escPc = "idle"
  /\ RunnerIdle
  /\ PairIdle

\* transformRanges.push(start, end, add) for each range
PushRanges ==
  /\ spPc = "push"
  /\ spRanges' = PushAll(<< >>, spPushes)
  /\ spPc' = "apply"
  /\ UNCHANGED << spStr, spPushes, spOut, pipelineVars, escVars, runnerVars,
                  pairVars >>

\* applyRanges(str, transformRanges.current())
ApplyPushed ==
  /\ spPc = "apply"
  /\ spOut' = applyRanges(spStr, RangesCurrent(spRanges))
  /\ spPc' = "applied"
  /\ UNCHANGED << spStr, spPushes, spRanges, pipelineVars, escVars, runnerVars,
                  pairVars >>

NextSplice == PushRanges \/ ApplyPushed

SpecSplice == InitSplice /\ [][NextSplice]_vars

----------------------------------------------------------------------------
(* Two invocations of the transform hook of one plugin object, for two     *)
(* modules.  The plugin object holds options and filter; every other       *)
(* binding (tagMap, ast, transformTargets, transformRanges, dependencies,  *)
(* the loop positions) is a const or a parameter of the function that is   *)
(* called, so each invocation has its own.  An invocation runs until its   *)
(* next await; the invocations alternate after any step, which includes    *)
(* every alternation at the await points.                                  *)

Hooks == {"index.js", "plugin.js"}

\* s = css, backtick, a, backtick; t = html, backtick, b, backtick;
SourceA ==
  << "s", "=" >> \o Template(Css, << "a" >>) \o << ";" >>
  \o << "t", "=" >> \o Template(Html, << "b" >>) \o << ";" >>

\* s = sql, backtick, q, backtick; t = css, backtick, ${x}, backtick;
SourceB ==
  << "s", "=" >> \o Template(Sql, << "q" >>) \o << ";" >>
  \o << "t", "=" >> \o Template(Css, Placeholder(<< "x" >>)) \o << ";" >>

PairSources == {SourceA, SourceB}

\* The bindings of transform(moduleCode, moduleId) when it is called.
InitLocal(moduleCode, moduleId) ==
  [pc |-> "start", code |-> moduleCode, id |-> moduleId, objIdx |-> 1,
   resolved |-> << >>, discovered |-> << >>, tagMap |-> EmptyMap, ast |-> << >>,
   transformTargets |-> << >>, tgtIdx |-> 1, calls |-> << >>,
   transformRanges |-> << >>, dependencies |-> << >>, handed |-> NoValue,
   result |-> NoResult, error |-> NoError]

\* makeTagMap(options): one step of the loop over pluginOptions
StepTagMap(l, opts, env) ==
  LET po == pluginOptionsOf(opts) IN
  IF l.pc = "resolve"
  THEN IF l.objIdx > Len(po) THEN [l EXCEPT !.pc = "parse"]
       ELSE IF HasPostcss(po[l.objIdx])
       THEN [l EXCEPT !.resolved = Append(@, resolveGiven(po[l.objIdx].postcss)),
                      !.pc = "expand"]
       ELSE [l EXCEPT !.discovered = Append(@, l.objIdx), !.pc = "discovering"]
  ELSE IF l.pc = "discovering"
  THEN IF env.found
       THEN [l EXCEPT !.resolved = Append(@, resolveLoaded(env.result)),
                      !.pc = "expand"]
       ELSE [l EXCEPT !.error = ConfigMissingError(po[l.objIdx].tags, NoConfigFound),
                      !.pc = "failed"]
  ELSE LET r == SetTags(l.tagMap, po[l.objIdx].tags,
                        processTagConfigOf(po[l.objIdx], l.resolved[Len(l.resolved)]))
       IN IF r.threw
          THEN [l EXCEPT !.tagMap = r.map, !.error = DuplicateTagError(r.tag),
                         !.pc = "failed"]
          ELSE [l EXCEPT !.tagMap = r.map, !.objIdx = @ + 1, !.pc = "resolve"]

\* the loop over transformTargets: one call of the processor, or its outcome
StepTargets(l, withDependencies) ==
  LET tgt == l.transformTargets[l.tgtIdx]
      call == l.calls[Len(l.calls)]
  IN IF l.pc = "transform"
     THEN [l EXCEPT !.calls = Append(@, [contents |-> tgt.literalContents,
                                         plugins |-> tgt.processTagConfig
                                                       .postcssConfig.plugins,
                                         options |-> postcssOptionsOf(l.id, tgt)]),
                    !.pc = "processing"]
     ELSE IF processRejects(call.plugins)
     THEN [l EXCEPT !.error = ProcessorError, !.pc = "failed"]
     ELSE [l EXCEPT !.transformRanges =
                       RangesPush(@, tgt.start, tgt.end,
                                  pipeNow(processCss(call.contents, call.plugins),
                                          tgt.processTagConfig.outputTransforms)),
                    !.dependencies =
                       IF withDependencies
                       THEN addDependencies(@, processMessages(call.contents,
                                                                call.plugins))
                       ELSE @,
                    !.tgtIdx = @ + 1,
                    !.pc = "transform"]

\* what the hook does after the loop over transformTargets
StepReturn(l, module) ==
  IF module = "index.js"
  THEN [l EXCEPT !.result = [kind |-> "object",
                             code |-> applyRanges(l.code,
                                                  RangesCurrent(l.transformRanges)),
                             map |-> "null"],
                 !.pc = "done"]
  ELSE IF l.pc = "transform"
  THEN [l EXCEPT !.handed = [type |-> "Object",
                             transformRanges |-> [type |-> "Ranges",
                                                  ranges |-> l.transformRanges],
                             dependencies |-> l.dependencies],
                 !.pc = "laststage"]
  ELSE IF HasCurrent(l.handed)
  THEN [l EXCEPT !.result = [kind |-> "object",
                             code |-> applyRanges(l.code,
                                                  RangesCurrent(l.handed.ranges)),
                             map |-> "null"],
                 !.pc = "done"]
  ELSE [l EXCEPT !.error = NotAFunctionError, !.pc = "failed"]

\* An invocation has returned or thrown.
Settled(l) == l.pc \in {"skipped", "done", "failed"}

\* transform(code, id): the step an invocation with the bindings l takes
\* next, given the options of the plugin object and the environment.
StepLocal(l, opts, env, module) ==
  IF l.pc = "start"
  THEN IF filter(opts, l.id)
       THEN [l EXCEPT !.pc = "resolve", !.objIdx = 1, !.tagMap = EmptyMap]
       ELSE [l EXCEPT !.pc = "skipped", !.result = [kind |-> "undefined"]]
  ELSE IF l.pc \in {"resolve", "discovering", "expand"}
  THEN StepTagMap(l, opts, env)
  ELSE IF l.pc = "parse"
  THEN [l EXCEPT !.ast = parse(l.code), !.pc = "walk"]
  ELSE IF l.pc = "walk"
  THEN [l EXCEPT !.transformTargets = findTransformTargets(l.code, l.tagMap, l.ast),
                 !.tgtIdx = 1, !.transformRanges = << >>, !.pc = "transform"]
  ELSE IF l.pc = "processing"
          \/ (l.pc = "transform" /\ l.tgtIdx <= Len(l.transformTargets))
  THEN StepTargets(l, module = "plugin.js")
  ELSE IF l.pc \in {"transform", "laststage"}
  THEN StepReturn(l, module)
  ELSE l

InitPair ==
  /\ hook \in Hooks
  /\ options \in FewOptions
  /\ rc \in Environments
  /\ \E codeA, codeB \in PairSources :
       invs = << InitLocal(codeA, "a.js"), InitLocal(codeB, "b.js") >>
  /\ pc = "idle"
  /\ code = << >>
  /\ id = "a.js"
  /\ objIdx = 1
  /\ resolved = << >>
  /\ discovered = << >>
  /\ tagMap = EmptyMap
  /\ ast = << >>
  /\ transformTargets = << >>
  /\ tgtIdx = 1
  /\ calls = << >>
  /\ transformRanges = << >>
  /\ result = NoResult
  /\ error = NoError
  /\ escIn = << >>
  /\ escOut = << >>
  /\ escPc = "idle"
  /\ RunnerIdle
  /\ SpliceIdle

\* A hook whose Ranges object belongs to the plugin object: a push of one
\* invocation is seen by the other.
StepInvocation_sharedRanges(i) ==
  /\ ~Settled(invs[i])
  /\ LET l == StepLocal(invs[i], options, rc, hook) IN
     invs' = [j \in DOMAIN invs |->
                IF j = i THEN l
                ELSE [invs[j] EXCEPT !.transformRanges = l.transformRanges]]
  /\ UNCHANGED << hook, pipelineVars, escVars, runnerVars, spliceVars >>

\* Invocation i runs to its next step; options and the environment are
\* read and nothing of the other invocation is named.
StepInvocation(i) ==
  /\ ~Settled(invs[i])
  /\ invs' = [invs EXCEPT ![i] = StepLocal(invs[i], options, rc, hook)]
  /\ UNCHANGED << hook, pipelineVars, escVars, runnerVars, spliceVars >>

NextPair == \E i \in DOMAIN invs : StepInvocation(i)

SpecPair == InitPair /\ [][NextPair]_vars

----------------------------------------------------------------------------
(* Properties.                                                             *)

Range(seq) == {seq[i] : i \in DOMAIN seq}

\* The tags the plugin options list, in the order makeTagMap meets them.
RECURSIVE ListedTags(_)
ListedTags(items) ==
  IF items = << >> THEN << >> ELSE Head(items).tags \o ListedTags(Tail(items))

ConfiguredTags == Range(ListedTags(options.items))

\* The nodes of the tree whose tag is an identifier the options list.
ConfiguredNodes ==
  SelectSeq(ast, LAMBDA n : "name" \in DOMAIN n.tag /\ n.tag.name \in ConfiguredTags)

Disjoint(n, m) == n.quasi.end <= m.quasi.start \/ m.quasi.end <= n.quasi.start

NoConfiguredNesting ==
  \A i, j \in DOMAIN ConfiguredNodes :
    i # j => Disjoint(ConfiguredNodes[i], ConfiguredNodes[j])

\* Every configuration object gives a postcss config without plugins (the
\* processor returns the css it is given) and no outputTransforms.
IdentityProcessorDefaultTransform ==
  \A i \in DOMAIN options.items :
    LET o == options.items[i] IN
    /\ "postcss" \in DOMAIN o
    /\ "plugins" \in DOMAIN o.postcss => o.postcss.plugins = << >>
    /\ "outputTransforms" \notin DOMAIN o

\* The text with the body of every configured template escaped, copied
\* character by character from index i on: nodes are the configured nodes.
RECURSIVE EscapedBodiesFrom(_, _, _)
EscapedBodiesFrom(text, i, nodes) ==
  IF i > Len(text) THEN << >>
  ELSE IF \E k \in DOMAIN nodes : nodes[k].quasi.start + 1 = i
       THEN LET n == nodes[CHOOSE k \in DOMAIN nodes : nodes[k].quasi.start + 1 = i]
            IN << text[i] >>
               \o standardOutputTransform(SubSeq(text, i + 1, n.quasi.end - 1))
               \o EscapedBodiesFrom(text, n.quasi.end, nodes)
       ELSE << text[i] >> \o EscapedBodiesFrom(text, i + 1, nodes)

\* C1: with an identity processor and the default output transform, transform
\* returns the source with exactly the text between the two backticks of each
\* configured tagged template replaced by standardOutputTransform of that
\* text, every other character (tag and backticks included) unchanged.
C1_EndToEnd ==
  (pc = "done" /\ IdentityProcessorDefaultTransform /\ NoConfiguredNesting)
    => /\ result.kind = "object"
       /\ result.code = EscapedBodiesFrom(code, 1, ConfiguredNodes)
       /\ ConfiguredNodes = << >> => result.code = code

\* const s = css, backtick, color:\${x};, backtick
ExampleOutput ==
  << "c", "o", "n", "s", "t", " ", "s", " ", "=", " ", "c", "s", "s", BT,
     "c", "o", "l", "o", "r", ":", BS, DL, OB, "x", CB, ";", BT >>

C1_Witness ==
  /\ pc = "done"
  /\ code = ExampleSource
  /\ ConfiguredTags = {"css"}
  /\ IdentityProcessorDefaultTransform
  /\ result.code = ExampleOutput

Count(c, text) == Cardinality({i \in DOMAIN text : text[i] = c})

\* The number of backslashes that end right before index i.
RECURSIVE BackslashesBefore(_, _)
BackslashesBefore(text, i) ==
  IF i > 1 /\ text[i - 1] = BS THEN 1 + BackslashesBefore(text, i - 1) ELSE 0

\* C2: the output of standardOutputTransform has an odd number of backslashes
\* right before each backtick and each ${, and at least as many backslashes
\* as the input.
C2_NoUnescaped ==
  escPc = "return"
    => /\ \A i \in DOMAIN escOut :
            (escOut[i] = BT \/ MatchAt(escOut, i, << DL, OB >>))
              => BackslashesBefore(escOut, i) % 2 = 1
       /\ Count(BS, escOut) >= Count(BS, escIn)

C2_Witness ==
  /\ escPc = "return"
  /\ escIn = << BS, BT, DL, OB >>
  /\ escOut = << BS, BS, BS, BT, BS, DL, OB >>

\* One pass over the input: a backslash becomes two, a backtick and a ${ get
\* one backslash in front, every other character is copied.
RECURSIVE ReferenceEncodeFrom(_, _)
ReferenceEncodeFrom(text, i) ==
  IF i > Len(text) THEN << >>
  ELSE (IF text[i] = BS THEN << BS, BS >>
        ELSE IF text[i] = BT THEN << BS, BT >>
        ELSE IF text[i] = DL /\ i < Len(text) /\ text[i + 1] = OB THEN << BS, DL >>
        ELSE << text[i] >>)
       \o ReferenceEncodeFrom(text, i + 1)

PlaceholderOpenings(text) ==
  Cardinality({i \in DOMAIN text : MatchAt(text, i, << DL, OB >>)})

\* C3: standardOutputTransform is the encoder that doubles each backslash of
\* the input and puts exactly one backslash in front of each backtick and
\* each ${ of the input, and changes nothing else; an input without these
\* characters is returned unchanged.
C3_ReferenceEncoder ==
  escPc = "return"
    => /\ escOut = ReferenceEncodeFrom(escIn, 1)
       /\ Len(escOut) = Len(escIn) + Count(BS, escIn) + Count(BT, escIn)
                          + PlaceholderOpenings(escIn)
       /\ (Count(BS, escIn) = 0 /\ Count(BT, escIn) = 0
             /\ PlaceholderOpenings(escIn) = 0) => escOut = escIn

C3_Witness ==
  /\ escPc = "return"
  /\ escIn = << DL, OB, BT, BT >>
  /\ escOut = << BS, DL, OB, BS, BT, BS, BT >>

----------------------------------------------------------------------------
(* makeTagMap and resolvePostcssConfig                                     *)

\* The positions of transform after makeTagMap has returned its map.
AfterTagMap == {"parse", "walk", "transform", "processing", "done"}

\* The positions of transform inside makeTagMap.
InTagMap == {"resolve", "discovering", "expand"}

AllTags == ListedTags(options.items)

IsRepeat(k) == \E j \in 1..(k - 1) : AllTags[j] = AllTags[k]

HasDuplicateTag == \E k \in DOMAIN AllTags : IsRepeat(k)

\* The first listed tag that was listed before, and the object listing it.
FirstRepeat == CHOOSE k \in DOMAIN AllTags : IsRepeat(k) /\ \A j \in 1..(k - 1) : ~IsRepeat(j)

ObjectOfPosition(k) ==
  CHOOSE i \in DOMAIN options.items :
    /\ Len(ListedTags(SubSeq(options.items, 1, i))) >= k
    /\ Len(ListedTags(SubSeq(options.items, 1, i - 1))) < k

\* Object i gives no postcss config and postcssrc() finds none.
Unresolvable(i) == "postcss" \notin DOMAIN options.items[i] /\ ~rc.found

FirstUnresolvable(m) ==
  CHOOSE i \in 1..m : Unresolvable(i) /\ \A j \in 1..(i - 1) : ~Unresolvable(j)

\* C4 as stated: with a tag listed twice, makeTagMap returns no map and
\* fails with the duplicate-tag error.
C4_AlwaysDuplicateError ==
  HasDuplicateTag
    => /\ pc \notin AfterTagMap
       /\ pc = "failed" => error = DuplicateTagError(AllTags[FirstRepeat])

\* C4, amended: with a tag listed twice, makeTagMap returns no map and always
\* fails: with the error of the first configuration object whose config
\* cannot be resolved, when there is one up to the object that repeats a tag,
\* and with the duplicate-tag error for the first repeated tag otherwise.
C4_DuplicateFails ==
  HasDuplicateTag
    => LET last == ObjectOfPosition(FirstRepeat) IN
       /\ pc \notin AfterTagMap
       /\ pc \in InTagMap => (ENABLED Next /\ objIdx <= last)
       /\ pc = "failed"
            => IF \E i \in 1..last : Unresolvable(i)
               THEN error = ConfigMissingError(
                              options.items[FirstUnresolvable(last)].tags,
                              NoConfigFound)
               ELSE error = DuplicateTagError(AllTags[FirstRepeat])

C4_Witness ==
  /\ pc = "failed"
  /\ options.isArray
  /\ Len(options.items) = 2
  /\ options.items[1].tags = << "css" >>
  /\ options.items[2].tags = << "html", "css" >>
  /\ error = DuplicateTagError("css")

\* cfg holds the given plugins and, of source, the keys parser, stringifier
\* and syntax with their values, and nothing else.
IsExtraction(cfg, plugins, source) ==
  /\ DOMAIN cfg = {"plugins", "options"}
  /\ cfg.plugins = plugins
  /\ \A k \in {"parser", "stringifier", "syntax"} :
       IF k \in DOMAIN source
       THEN k \in DOMAIN cfg.options /\ cfg.options[k] = source[k]
       ELSE k \notin DOMAIN cfg.options
  /\ DOMAIN cfg.options \subseteq {"parser", "stringifier", "syntax"}

\* cfg is what configuration object o resolves to.
IsResolvedConfigOf(cfg, o) ==
  IF "postcss" \in DOMAIN o
  THEN IsExtraction(cfg,
                    IF "plugins" \in DOMAIN o.postcss THEN o.postcss.plugins
                    ELSE << >>,
                    o.postcss)
  ELSE rc.found /\ IsExtraction(cfg, rc.result.plugins, rc.result.options)

TagMapIsUnion ==
  /\ DOMAIN tagMap = ConfiguredTags
  /\ \A i \in DOMAIN options.items :
       \A t \in Range(options.items[i].tags) :
         /\ IsResolvedConfigOf(tagMap[t].postcssConfig, options.items[i])
         /\ tagMap[t].outputTransforms =
              IF "outputTransforms" \in DOMAIN options.items[i]
              THEN options.items[i].outputTransforms
              ELSE << "standardOutputTransform" >>

AllResolvable == \A i \in DOMAIN options.items : ~Unresolvable(i)

\* C5 as stated: with no tag listed twice, makeTagMap does not fail and
\* returns the map of the union of the tags.
C5_AlwaysSucceeds ==
  ~HasDuplicateTag
    => /\ error.type \notin {"Error", "TraceError"}
       /\ pc \in AfterTagMap => TagMapIsUnion

\* C5, amended: with no tag listed twice, and every configuration object
\* either giving a postcss config or postcssrc() finding one, makeTagMap
\* does not fail and returns a map whose keys are the union of the listed
\* tags, each mapped to the resolved config and the output transforms of the
\* object that lists it.
C5_DisjointSucceeds ==
  (~HasDuplicateTag /\ AllResolvable)
    => /\ error.type \notin {"Error", "TraceError"}
       /\ pc \in InTagMap => ENABLED Next
       /\ pc \in AfterTagMap => TagMapIsUnion

C5_Witness ==
  /\ pc = "parse"
  /\ options.isArray
  /\ Len(options.items) = 2
  /\ options.items[1].tags = << "css" >>
  /\ options.items[2].tags = << "html" >>
  /\ DOMAIN options.items[1] = {"tags", "postcss", "outputTransforms"}
  /\ options.items[1].postcss = UserConfig
  /\ options.items[1].outputTransforms = << >>
  /\ "postcss" \notin DOMAIN options.items[2]
  /\ DOMAIN tagMap = {"css", "html"}
  /\ tagMap["css"].postcssConfig # tagMap["html"].postcssConfig

\* C6: a configuration object that gives a postcss config is resolved to the
\* plugins of that config ([] when it has none) and its parser, stringifier
\* and syntax, without a call of postcssrc(); one that gives none is resolved
\* to the same extraction of the result of one call of postcssrc().
C6_Resolution ==
  /\ Len(resolved) <= Len(options.items)
  /\ \A i \in DOMAIN resolved :
       /\ IsResolvedConfigOf(resolved[i], options.items[i])
       /\ "postcss" \in DOMAIN options.items[i] <=> i \notin Range(discovered)
  /\ \A k \in DOMAIN discovered :
       /\ discovered[k] \in DOMAIN options.items
       /\ "postcss" \notin DOMAIN options.items[discovered[k]]
       /\ \A j \in DOMAIN discovered : discovered[j] = discovered[k] => j = k
  /\ pc = "expand" => Len(resolved) = objIdx

C6_Witness ==
  /\ rc.found
  /\ Len(resolved) = 2
  /\ "postcss" \in DOMAIN options.items[1]
  /\ options.items[1].postcss = UserConfig
  /\ resolved[1] = [plugins |-> << "docs" >>, options |-> [parser |-> "userParser"]]
  /\ resolved[2] = [plugins |-> << "docs" >>, options |-> [parser |-> "rcParser"]]
  /\ discovered = << 2 >>

\* C7: every call of the processor gets from = id and to = id and no map,
\* and apart from these only parser, stringifier and syntax.
C7_FromToOverridden ==
  \A i \in DOMAIN calls :
    /\ calls[i].options.from = id
    /\ calls[i].options.to = id
    /\ "map" \notin DOMAIN calls[i].options
    /\ DOMAIN calls[i].options
         \subseteq {"from", "to", "parser", "stringifier", "syntax"}

C7_Witness ==
  /\ Len(calls) = 2
  /\ "postcss" \in DOMAIN options.items[1]
  /\ options.items[1].postcss = UserConfig
  /\ calls[1].options = [from |-> id, to |-> id, parser |-> "userParser"]
  /\ calls[2].options = [from |-> id, to |-> id, parser |-> "rcParser"]

----------------------------------------------------------------------------
(* The region locator                                                      *)

\* The positions of transform after the walk.
AfterWalk == {"transform", "processing", "done"}

\* The nodes of the tree whose tag is a key of the tag map.
MappedNodes ==
  SelectSeq(ast, LAMBDA n : "name" \in DOMAIN n.tag /\ n.tag.name \in DOMAIN tagMap)

\* C8: the walk emits one target for each node whose tag name is a key of the
\* tag map, in walk order, with start = quasi.start + 1, end = quasi.end - 1,
\* the source text strictly between the two backticks as its contents, and
\* the config the map gives the tag.
C8_TargetIsBody ==
  pc \in AfterWalk
    => /\ Len(transformTargets) = Len(MappedNodes)
       /\ \A k \in DOMAIN transformTargets :
            LET t == transformTargets[k]
                n == MappedNodes[k]
            IN /\ t.start = n.quasi.start + 1
               /\ t.end = n.quasi.end - 1
               /\ code[t.start] = BT
               /\ code[t.end + 1] = BT
               /\ Len(t.literalContents) = t.end - t.start
               /\ \A j \in DOMAIN t.literalContents :
                    t.literalContents[j] = code[t.start + j]
               /\ t.processTagConfig = tagMap[n.tag.name]

C8_Witness ==
  /\ pc = "transform"
  /\ Len(transformTargets) = 2
  /\ transformTargets[1].literalContents = << "a", BS, BT >>
  /\ transformTargets[2].literalContents = << "b" >>
  /\ transformTargets[1].processTagConfig # transformTargets[2].processTagConfig

\* C9 as stated: every target has 0 <= start < end <= len(code).
C9_StartBeforeEnd ==
  \A k \in DOMAIN transformTargets :
    /\ 0 <= transformTargets[k].start
    /\ transformTargets[k].start < transformTargets[k].end
    /\ transformTargets[k].end <= Len(code)

\* C9, amended: every target has 0 <= start <= end <= len(code), and
\* start = end exactly when the body of the template is empty.
C9_StartNotAfterEnd ==
  \A k \in DOMAIN transformTargets :
    LET t == transformTargets[k] IN
    /\ 0 <= t.start
    /\ t.start <= t.end
    /\ t.end <= Len(code)
    /\ t.start = t.end <=> code[t.start + 1] = BT

C9_Witness ==
  \E k \in DOMAIN transformTargets :
    /\ transformTargets[k].start = transformTargets[k].end
    /\ transformTargets[k].literalContents = << >>
    /\ pc = "done"

\* C10: the targets of one source text are pairwise non-overlapping.
C10_NonOverlapping ==
  \A i, j \in DOMAIN transformTargets :
    i # j => \/ transformTargets[i].end <= transformTargets[j].start
             \/ transformTargets[j].end <= transformTargets[i].start

----------------------------------------------------------------------------
(* Tags the tag map does not have                                          *)

\* The nodes of the tree whose tag is no key of the tag map.
UnmappedNodes ==
  SelectSeq(ast, LAMBDA n : ~("name" \in DOMAIN n.tag /\ n.tag.name \in DOMAIN tagMap))

\* How far the ranges that end at or before an offset move the text behind
\* them.
RECURSIVE ShiftBefore(_, _)
ShiftBefore(ranges, offset) ==
  IF ranges = << >> THEN 0
  ELSE (IF Head(ranges).to <= offset
        THEN Len(Head(ranges).add) - (Head(ranges).to - Head(ranges).from)
        ELSE 0)
       + ShiftBefore(Tail(ranges), offset)

\* No range touches the text of the node, backticks included.
Untouched(n, ranges) ==
  \A k \in DOMAIN ranges :
    ranges[k].to <= n.quasi.start \/ n.quasi.end <= ranges[k].from

\* The walk is over and no configuration error ended the invocation.
Walked ==
  pc \in AfterWalk \/ (pc = "failed" /\ error = ProcessorError)

----------------------------------------------------------------------------
(* The Ranges object and applyRanges                                       *)

RangesOverlap(a, b) == ~(a.to <= b.from \/ b.to <= a.from)

\* C12 as stated: when two of the ranges pushed in an invocation overlap,
\* the invocation produces no output text (the splice fails) and the ranges
\* are not merged.
C12_OverlapFails ==
  (\E i, j \in DOMAIN transformRanges :
     i # j /\ RangesOverlap(transformRanges[i], transformRanges[j]))
    => /\ pc # "done"
       /\ result = NoResult

\* No two of the ranges share a character of the text.
PairwiseDisjoint(pushes) ==
  \A i, j \in DOMAIN pushes :
    i # j => (pushes[i].to <= pushes[j].from \/ pushes[j].to <= pushes[i].from)

\* The ranges pushed are a set: no range is pushed twice.
NoRepeat(pushes) == \A i, j \in DOMAIN pushes : i # j => pushes[i] # pushes[j]

IsInsertion(r) == r.from = r.to /\ r.add # << >>

\* An empty range (from = to) neither starts nor ends where another of the
\* ranges starts or ends.
EmptyRangesApart(pushes) ==
  \A i, j \in DOMAIN pushes :
    (i # j /\ pushes[i].from = pushes[i].to)
      => (pushes[j].from # pushes[i].from /\ pushes[j].to # pushes[i].from)

\* The permutations of a sequence.
Orders(pushes) ==
  {[k \in DOMAIN pushes |-> pushes[f[k]]] :
     f \in {g \in [DOMAIN pushes -> DOMAIN pushes] :
              \A a, b \in DOMAIN pushes : a # b => g[a] # g[b]}}

\* The text from offset k on with the ranges applied, read off the ranges
\* offset by offset: text inserted at k, then the replacement of the range
\* that starts at k and the text after that range, or the character at k.
RECURSIVE SplicedFrom(_, _, _)
SplicedFrom(str, k, pushes) ==
  LET here == {r \in Range(pushes) : r.from = k}
      inserted == IF \E r \in here : IsInsertion(r)
                  THEN (CHOOSE r \in here : IsInsertion(r)).add ELSE << >>
  IN IF \E r \in here : r.to > k
     THEN LET r == CHOOSE q \in here : q.to > k
          IN inserted \o r.add \o SplicedFrom(str, r.to, pushes)
     ELSE IF k >= Len(str) THEN inserted
          ELSE inserted \o << str[k + 1] >> \o SplicedFrom(str, k + 1, pushes)

\* What the claim says of the ranges pushed.
SpliceContract ==
  /\ spPushes = << >> => spOut = spStr
  /\ Len(spPushes) = 1 =>
       spOut = SubSeq(spStr, 1, spPushes[1].from) \o spPushes[1].add
                 \o SubSeq(spStr, spPushes[1].to + 1, Len(spStr))
  /\ spOut = SplicedFrom(spStr, 0, spPushes)
  /\ \A order \in Orders(spPushes) :
       applyRanges(spStr, RangesCurrent(PushAll(<< >>, order))) = spOut

----------------------------------------------------------------------------
(* Failures                                                                *)

\* The k-th processor call is made with a plugin that throws.
ThrowingCall(k) == "throws" \in Range(calls[k].plugins)

\* C14: a processor call that rejects ends the invocation with the
\* processor's error: no code is returned, whatever ranges were pushed
\* before, nothing runs after it, and each target up to the failed one was
\* given to the processor once.
C14_ProcessorFailureIsFatal ==
  /\ \A k \in DOMAIN calls :
       ThrowingCall(k)
         => /\ k = Len(calls)
            /\ pc \in {"processing", "failed"}
            /\ result = NoResult
  /\ (pc = "failed" /\ calls # << >>)
       => /\ ThrowingCall(Len(calls))
          /\ error = ProcessorError
          /\ result = NoResult
          /\ Len(calls) = tgtIdx
          /\ \A k \in DOMAIN calls :
               calls[k].contents = transformTargets[k].literalContents
          /\ ~ENABLED Next

C14_Witness ==
  /\ pc = "failed"
  /\ error = ProcessorError
  /\ Len(calls) = 2
  /\ transformRanges # << >>
  /\ Len(transformTargets) > 2

----------------------------------------------------------------------------
(* Output transforms                                                       *)

\* The configuration object that lists a tag.
ObjectListing(tag) ==
  options.items[CHOOSE i \in DOMAIN options.items :
                  tag \in Range(options.items[i].tags)]

\* The first n functions of a list applied to a text, one after the other.
RECURSIVE AppliedUpTo(_, _, _)
AppliedUpTo(fns, n, text) ==
  IF n = 0 THEN text ELSE applyTransform(fns[n], AppliedUpTo(fns, n - 1, text))

\* What the processor returned for the k-th call.
CssOfCall(k) == processCss(calls[k].contents, calls[k].plugins)

C17_TransformersOptionApplied ==
  pc \in AfterWalk
    => \A k \in DOMAIN transformRanges :
         LET obj == ObjectListing(MappedNodes[k].tag.name) IN
         "outputTransformers" \in DOMAIN obj
           => transformRanges[k].add
                = AppliedUpTo(obj.outputTransformers, Len(obj.outputTransformers),
                              CssOfCall(k))

----------------------------------------------------------------------------
(* The transform hook of plugin.js                                         *)

\* The paths a list of messages reports as dependencies.
PathsOf(messages) ==
  {messages[i].file :
     i \in {j \in DOMAIN messages :
              messages[j].type \in {"dependency", "context-dependency"}}}
  \cup {messages[i].dir :
          i \in {j \in DOMAIN messages : messages[j].type = "dir-dependency"}}

\* The paths the processor reported in the calls that resolved so far.
ReportedPaths ==
  UNION {PathsOf(processMessages(calls[k].contents, calls[k].plugins)) :
           k \in 1..(tgtIdx - 1)}

NoDuplicates(seq) == \A i, j \in DOMAIN seq : i # j => seq[i] # seq[j]

\* C18: the dependency list makeTransformRanges returns has no duplicates
\* and holds exactly the file of every dependency and context-dependency
\* message and the dir of every dir-dependency message of the invocation's
\* processor results; other messages add nothing.
C18_DependenciesExact ==
  /\ NoDuplicates(dependencies)
  /\ pc \in {"transform", "processing", "laststage"}
       => Range(dependencies) = ReportedPaths
  /\ handed # NoValue
       => /\ tgtIdx = Len(transformTargets) + 1
          /\ Len(calls) = Len(transformTargets)
          /\ NoDuplicates(handed.dependencies)
          /\ Range(handed.dependencies) = ReportedPaths
          /\ "warned.css" \notin Range(handed.dependencies)

C18_Witness ==
  /\ pc = "laststage"
  /\ Len(calls) = 2
  /\ Range(handed.dependencies) = {"theme.css", "empty.css", "src"}
  /\ Len(handed.dependencies) = 3

\* C19 as stated: an invocation on an included module without a
\* configuration or processor error completes with the spliced code, and the
\* value the last stage receives is the Ranges object whose ranges it
\* applies.
C19_LastStageGetsRanges ==
  /\ handed # NoValue => HasCurrent(handed)
  /\ pc = "failed" => error.type \in {"Error", "TraceError", "CssSyntaxError"}

----------------------------------------------------------------------------
(* The order of the phases of one invocation                               *)

\* Every call of the transform loop has resolved and nothing is spliced yet,
\* or the splice is done.
AtSplice ==
  (pc = "transform" /\ tgtIdx > Len(transformTargets)) \/ pc = "done"

\* C20: the tag map is complete (every discovery call answered) before the
\* tree is parsed and walked; the walk gathers all targets before the first
\* processor call; the splice starts only when every target has had its
\* call and has one range with its start and end.
C20_PhasesOrdered ==
  /\ pc \in {"start"} \cup InTagMap
       => /\ ast = << >> /\ transformTargets = << >>
          /\ calls = << >> /\ transformRanges = << >>
          /\ result = NoResult
  /\ pc \in {"parse", "walk"} \cup AfterWalk
       => /\ Len(resolved) = Len(options.items)
          /\ DOMAIN tagMap = ConfiguredTags
          /\ discovered # << >> => rc.found
  /\ pc \in {"parse", "walk"}
       => (transformTargets = << >> /\ calls = << >> /\ transformRanges = << >>)
  /\ calls # << >>
       => /\ Len(transformTargets) = Len(MappedNodes)
          /\ Len(calls) <= Len(transformTargets)
          /\ Len(transformRanges) \in {Len(calls) - 1, Len(calls)}
  /\ result # NoResult /\ result.kind = "object" => pc = "done"
  /\ AtSplice
       => /\ Len(calls) = Len(transformTargets)
          /\ Len(transformRanges) = Len(transformTargets)
          /\ \A k \in DOMAIN transformTargets :
               /\ transformRanges[k].from = transformTargets[k].start
               /\ transformRanges[k].to = transformTargets[k].end

C20_Witness ==
  /\ pc = "transform"
  /\ tgtIdx = Len(transformTargets) + 1
  /\ Len(transformRanges) = 3
  /\ discovered = << 2 >>
  /\ \E k \in DOMAIN transformTargets :
       transformTargets[k].start = transformTargets[k].end

----------------------------------------------------------------------------
(* The inclusion filter                                                    *)

\* A list of patterns of a configuration object matches the module id.
Matches(obj, key, moduleId) ==
  /\ key \in DOMAIN obj
  /\ \E i \in DOMAIN obj[key] : moduleId \in obj[key][i]

\* The options are one object whose patterns leave the module out: an
\* exclude pattern matches it, or include patterns are given and none does.
LeftOut ==
  /\ ~options.isArray
  /\ LET obj == options.items[1] IN
     \/ Matches(obj, "exclude", id)
     \/ ("include" \in DOMAIN obj /\ obj.include # << >>
           /\ ~Matches(obj, "include", id))

\* C22: when the filter rejects the module id, transform returns undefined
\* and nothing else happens: no config is resolved or discovered, nothing is
\* parsed, processed or spliced.
C22_FilterFirst ==
  /\ LeftOut => pc \in {"start", "skipped"}
  /\ pc = "skipped"
       => /\ LeftOut
          /\ result = [kind |-> "undefined"]
          /\ error = NoError
          /\ resolved = << >> /\ discovered = << >> /\ tagMap = EmptyMap
          /\ ast = << >> /\ transformTargets = << >>
          /\ calls = << >> /\ transformRanges = << >>
          /\ ~ENABLED Next

C22_Witness ==
  /\ pc = "skipped"
  /\ id = "b.js"
  /\ "include" \in DOMAIN options.items[1]
  /\ Len(parse(code)) = 2

----------------------------------------------------------------------------
(* The processor calls of one invocation                                   *)

\* The calls that have resolved or rejected.
CallsCompleted ==
  IF pc = "failed" /\ calls # << >> THEN Len(calls) ELSE
  IF pc = "processing" THEN Len(calls) - 1 ELSE Len(calls)

\* C23: the calls are made one at a time in the order of the targets: a
\* call starts when every call before it has resolved and its range and
\* dependencies are recorded, and no call follows a call that rejected.
C23_CallsSequential ==
  /\ Len(calls) - CallsCompleted \in {0, 1}
  /\ Len(calls) <= Len(transformTargets)
  /\ \A k \in DOMAIN calls :
       /\ calls[k].contents = transformTargets[k].literalContents
       /\ ThrowingCall(k) => k = Len(calls)
  /\ pc = "processing"
       => /\ Len(calls) = tgtIdx
          /\ Len(transformRanges) = Len(calls) - 1
          /\ \A k \in DOMAIN transformRanges :
               /\ transformRanges[k].from = transformTargets[k].start
               /\ transformRanges[k].to = transformTargets[k].end
          /\ Range(dependencies)
               = UNION {PathsOf(processMessages(calls[k].contents, calls[k].plugins)) :
                          k \in 1..(Len(calls) - 1)}
  /\ (pc = "failed" /\ calls # << >> /\ error = ProcessorError)
       => /\ Len(calls) = tgtIdx
          /\ ~ENABLED NextPlugin

C23_Witness ==
  /\ pc = "processing"
  /\ Len(calls) = 3
  /\ Len(transformRanges) = 2
  /\ dependencies # << >>
  /\ Len(transformTargets) > 3

----------------------------------------------------------------------------
(* Decoding the text produced by standardOutputTransform                   *)

\* Longest other input compared with the input of the call.
MaxOther == 2

RECURSIVE DecodeFrom(_, _)
\* Left-to-right scan: a backslash and the character after it become that
\* character, every other character is kept.
DecodeFrom(s, i) ==
  IF i > Len(s) THEN << >>
  ELSE IF s[i] = BS /\ i < Len(s) THEN << s[i + 1] >> \o DecodeFrom(s, i + 2)
  ELSE << s[i] >> \o DecodeFrom(s, i + 1)

Decode(s) == DecodeFrom(s, 1)

\* C24: decoding the return value of standardOutputTransform by the
\* left-to-right scan gives the argument back, and no other argument has
\* the same return value.
C24_Decodable ==
  escPc = "return"
    => /\ Decode(escOut) = escIn
       /\ \A y \in SeqsUpTo(EscChars, MaxOther) :
            standardOutputTransform(y) = escOut => y = escIn

C24_Witness ==
  /\ escPc = "return"
  /\ escIn = << BS, DL, OB, BT >>
  /\ escOut # escIn
  /\ Decode(escOut) = escIn

----------------------------------------------------------------------------
(* The patterns of the objects of an array of plugin options               *)

\* The patterns of the object leave the module out.
Excludes(obj, moduleId) ==
  \/ Matches(obj, "exclude", moduleId)
  \/ ("include" \in DOMAIN obj /\ obj.include # << >> /\ ~Matches(obj, "include", moduleId))

\* C25 as stated: under an array of configuration objects a module that
\* every object leaves out is returned untouched, and no processor call is
\* made for a tag of an object that leaves the module out.
C25_ObjectPatternsHonoured ==
  options.isArray
    => /\ (\A i \in DOMAIN options.items : Excludes(options.items[i], id))
            => pc \in {"start", "skipped"}
       /\ \A k \in DOMAIN calls :
            ~Excludes(ObjectListing(MappedNodes[k].tag.name), id)

----------------------------------------------------------------------------
(* Two invocations for different modules                                   *)

RECURSIVE RunAlone(_, _, _, _)
\* The bindings of an invocation that takes all its steps with no other
\* invocation running.
RunAlone(l, opts, env, module) ==
  IF Settled(l) THEN l ELSE RunAlone(StepLocal(l, opts, env, module), opts, env, module)

\* What the caller of the hook, and the stage after makeTransformRanges,
\* get from an invocation.
Outcome(l) ==
  [result |-> l.result, error |-> l.error, dependencies |-> l.dependencies,
   handed |-> l.handed]

\* The objects an invocation creates.
Created(l) ==
  << l.tagMap, l.transformTargets, l.transformRanges, l.dependencies >>

TwoRunning == invs # << >>

====
